---- MODULE Spec2Model ----
(***************************************************************************)
(* Model of the product CRUD service of src/main.py: a FastAPI application *)
(* whose handlers use one SQLAlchemy session per request (get_db) over a   *)
(* SQLite table "products" (src/database_model.py).  Handlers are split at *)
(* the database statements they issue, so that requests served by          *)
(* different worker threads interleave between a handler's query, its      *)
(* commit and its refresh.                                                 *)
(***************************************************************************)
EXTENDS Integers, FiniteSets, Sequences, TLC

\* ---------------------------------------------------------------- bounds
MaxId == 2                       \* ids (SQLite rowids) range over 1..MaxId

Ids == 1 .. MaxId
NoId == 0                        \* Python None in the id field
Requests == {"r1", "r2"}         \* requests in flight at the same time

\* ------------------------------------------------------- values and rows
Cols == {"id", "name", "quantity", "quality", "decs"}

SeedDecs == "the skipper is a medium quality product with a quantity of 56"

Names == {"skipper", "widget"}
Quantities == {56, 5}

\* models.products: the Pydantic payload, id optional
products ==
    [id : Ids \cup {NoId}, name : Names, quantity : Quantities,
     quality : {"high"}, decs : {"d"}]

\* main.product: the seed list (one element), id left at None
product ==
    << [id |-> NoId, name |-> "skipper", quantity |-> 56,
        quality |-> "medium", decs |-> SeedDecs] >>

NoRow == [id |-> NoId, name |-> "", quantity |-> 0, quality |-> "", decs |-> ""]

\* ------------------------------------------------------ responses
NoResult == [kind |-> "none", row |-> NoRow, rows |-> {}]
NotFound == [kind |-> "not_found", row |-> NoRow, rows |-> {}]
Deleted == [kind |-> "deleted", row |-> NoRow, rows |-> {}]
ProductResult(row) == [kind |-> "product", row |-> row, rows |-> {}]
ListResult(rows) == [kind |-> "list", row |-> NoRow, rows |-> rows]
Failure(kind) == [kind |-> kind, row |-> NoRow, rows |-> {}]

\* ------------------------------------------------------ storage (SQLite)
TableIds(t) == {row.id : row \in t}

Max(S) == CHOOSE m \in S : \A x \in S : x <= m

\* INTEGER PRIMARY KEY without AUTOINCREMENT: largest rowid in use plus one
NextId(t) == IF t = {} THEN 1 ELSE Max(TableIds(t)) + 1

\* db.query(Product).filter(Product.id == id).first()
QueryFirst(t, id) ==
    IF \E row \in t : row.id = id
    THEN CHOOSE row \in t : row.id = id
    ELSE NoRow

\* a plausible slip: a table declared without the primary key
InsertOkUnchecked(t, p) == TRUE

\* PRIMARY KEY constraint on INSERT
InsertOk(t, p) == p.id = NoId \/ p.id \notin TableIds(t)

\* a plausible slip: the decs column is left out of the INSERT
NewRowWithoutDecs(t, p) ==
    [p EXCEPT !.id = IF p.id = NoId THEN NextId(t) ELSE p.id, !.decs = ""]

\* the row an INSERT stores for p: a NULL id is replaced by the next rowid
NewRow(t, p) == [p EXCEPT !.id = IF p.id = NoId THEN NextId(t) ELSE p.id]

\* INSERT INTO products
Insert(t, p) == t \cup {NewRow(t, p)}

\* the columns the unit of work puts in the UPDATE's SET clause: those whose
\* assigned value differs from the value the session loaded
Changed(loaded, p) == {k \in Cols : p[k] # loaded[k]}

\* a plausible slip: quantity is left out of the copied attributes
UpdatedRowWithoutQuantity(cur, p, ch) ==
    [id       |-> IF "id" \in ch THEN p.id ELSE cur.id,
     name     |-> IF "name" \in ch THEN p.name ELSE cur.name,
     quantity |-> cur.quantity,
     quality  |-> IF "quality" \in ch THEN p.quality ELSE cur.quality,
     decs     |-> IF "decs" \in ch THEN p.decs ELSE cur.decs]

\* the row an UPDATE ... SET <changed> leaves: unchanged columns keep the
\* value currently stored, not the value the session loaded
UpdatedRow(cur, p, ch) ==
    [id       |-> IF "id" \in ch THEN p.id ELSE cur.id,
     name     |-> IF "name" \in ch THEN p.name ELSE cur.name,
     quantity |-> IF "quantity" \in ch THEN p.quantity ELSE cur.quantity,
     quality  |-> IF "quality" \in ch THEN p.quality ELSE cur.quality,
     decs     |-> IF "decs" \in ch THEN p.decs ELSE cur.decs]

\* outcome of the flush of update_pro: "noop" (nothing dirty, no statement),
\* "stale" (UPDATE matched no row), "integrity" (NULL or duplicate key), "ok"
UpdateOutcome(t, loaded, p) ==
    LET ch == Changed(loaded, p) IN
    IF ch = {} THEN "noop"
    ELSE IF loaded.id \notin TableIds(t) THEN "stale"
    ELSE IF "id" \in ch /\ (p.id = NoId \/ p.id \in TableIds(t)) THEN "integrity"
    ELSE "ok"

\* a plausible slip: the DELETE has lost its WHERE clause
DeleteAllRows(t, id) == {}

\* DELETE FROM products WHERE id = ?
DeleteRows(t, id) == {row \in t : row.id # id}

\* ------------------------------------------------------------- state
VARIABLES
    table,      \* the rows of table products in test.db
    pc,         \* per request: the statement its handler is at
    req,        \* per request: route, path id, payload, loaded object, response
    session,    \* per request: SessionLocal() calls, db.close() calls, outcome
    expect,     \* per id: product returned by create / deleted, still undisturbed
    everIds,    \* every id a row of the table has had
    served      \* a client request has been received since the first start

history == << expect, everIds, served >>
vars == << table, pc, req, session, expect, everIds, served >>

Ops == {"value", "value_id", "add_pro", "update_pro", "delete_pro"}

NoReq == [op |-> "none", id |-> NoId, payload |-> NoRow, loaded |-> NoRow,
          result |-> NoResult]
NoSession == [opened |-> 0, closed |-> 0, outcome |-> "none"]
NoExpect == [kind |-> "none", row |-> NoRow]

AllIdle == \A r \in Requests : pc[r] = "idle"

\* init_db(): one session, add every element of product, commit, close
init_db(t) == Insert(t, product[1])

Init ==
    /\ table = init_db({})
    /\ pc = [r \in Requests |-> "idle"]
    /\ req = [r \in Requests |-> NoReq]
    /\ session = [r \in Requests |-> NoSession]
    /\ expect = [i \in Ids |-> NoExpect]
    /\ everIds = TableIds(init_db({}))
    /\ served = FALSE

\* ------------------------------------------------------------- get_db
\* A request arrives for route op; the dependency get_db runs first:
\* db = SessionLocal(); yield db
GetDbOpen(r, op) ==
    /\ pc[r] = "idle"
    /\ pc' = [pc EXCEPT ![r] = "acquired"]
    /\ req' = [req EXCEPT ![r] = [NoReq EXCEPT !.op = op]]
    /\ session' = [session EXCEPT ![r] = [opened |-> 1, closed |-> 0,
                                          outcome |-> "none"]]
    /\ UNCHANGED table

FirstStatement(op) ==
    CASE op = "value" -> "value"
      [] op = "value_id" -> "value_id"
      [] op = "add_pro" -> "add_commit"
      [] op = "update_pro" -> "update_query"
      [] op = "delete_pro" -> "delete_query"

PathIds(op) == IF op \in {"value", "add_pro"} THEN {NoId} ELSE Ids

\* The path parameter and the body are validated after the dependency has
\* been entered; a request that passes enters the handler.  The body is a
\* request input the handler first uses at its commit: it is drawn there.
Validate(r) ==
    /\ pc[r] = "acquired"
    /\ \E id \in PathIds(req[r].op) :
          /\ req' = [req EXCEPT ![r].id = id]
          /\ pc' = [pc EXCEPT ![r] = FirstStatement(req[r].op)]
    /\ UNCHANGED << table, session >>

\* the handler returns or raises: the response is fixed, the session objects
\* are garbage, the exit stack is about to unwind get_db
Return(r, result) ==
    /\ req' = [req EXCEPT ![r] = [NoReq EXCEPT !.op = req[r].op,
                                        !.id = req[r].id, !.result = result]]
    /\ pc' = [pc EXCEPT ![r] = "teardown"]

\* A malformed path id or body: the handler is never called, the exit stack
\* still unwinds get_db.
ValidationError(r) ==
    /\ pc[r] = "acquired"
    /\ req[r].op # "value"
    /\ Return(r, Failure("validation_error"))
    /\ UNCHANGED << table, session >>

\* a plausible slip: db.close() after the yield, outside any finally
GetDbCloseOnSuccess(r) ==
    /\ pc[r] = "teardown"
    /\ session' = [session EXCEPT
                     ![r].closed = IF req[r].result.kind \in
                                        {"validation_error", "IntegrityError",
                                         "StaleDataError", "InvalidRequestError"}
                                    THEN @ ELSE @ + 1,
                     ![r].outcome = req[r].result.kind]
    /\ pc' = [pc EXCEPT ![r] = "idle"]
    /\ req' = [req EXCEPT ![r] = NoReq]
    /\ UNCHANGED table

\* finally: db.close(), then the response goes out
GetDbClose(r) ==
    /\ pc[r] = "teardown"
    /\ session' = [session EXCEPT ![r].closed = @ + 1,
                                  ![r].outcome = req[r].result.kind]
    /\ pc' = [pc EXCEPT ![r] = "idle"]
    /\ req' = [req EXCEPT ![r] = NoReq]
    /\ UNCHANGED table

\* ------------------------------------------------------------- handlers
\* GET /value
value(r) ==
    /\ pc[r] = "value"
    /\ Return(r, ListResult(table))
    /\ UNCHANGED << table, session >>

\* what GET /value/{id} answers on table t
value_id_result(t, id) ==
    LET db_product == QueryFirst(t, id) IN
    IF db_product # NoRow THEN ProductResult(db_product) ELSE NotFound

\* GET /value/{id}
value_id(r) ==
    /\ pc[r] = "value_id"
    /\ Return(r, value_id_result(table, req[r].id))
    /\ UNCHANGED << table, session >>

\* db.refresh(db_product): reload the object by its primary key
RefreshResult(t, pk) ==
    LET row == QueryFirst(t, pk) IN
    IF row # NoRow THEN ProductResult(row) ELSE Failure("InvalidRequestError")

\* commit expires the attributes of the session's objects; the identity stays
Expired(pk) == [NoRow EXCEPT !.id = pk]

\* the rowid an INSERT would assign stays within the modelled ids
WithinIds(t, p) == p.id # NoId \/ NextId(t) <= MaxId

\* POST /value: db.add(db_product); db.commit()
add_pro_commit(r) ==
    /\ pc[r] = "add_commit"
    /\ \E new_product \in products :
         /\ WithinIds(table, new_product)
         /\ IF InsertOk(table, new_product)
            THEN /\ table' = Insert(table, new_product)
                 /\ req' = [req EXCEPT ![r].payload = new_product,
                              ![r].loaded = Expired(NewRow(table, new_product).id)]
                 /\ pc' = [pc EXCEPT ![r] = "add_refresh"]
            ELSE /\ Return(r, Failure("IntegrityError"))
                 /\ UNCHANGED table
    /\ UNCHANGED session

\* POST /value: db.refresh(db_product); return db_product
add_pro_refresh(r) ==
    /\ pc[r] = "add_refresh"
    /\ Return(r, RefreshResult(table, req[r].loaded.id))
    /\ UNCHANGED << table, session >>

\* a plausible slip: an id without a row is stored as a new row (upsert)
update_pro_query_upsert(r) ==
    /\ pc[r] = "update_query"
    /\ LET db_product == QueryFirst(table, req[r].id) IN
       IF db_product # NoRow
       THEN /\ req' = [req EXCEPT ![r].loaded = db_product]
            /\ pc' = [pc EXCEPT ![r] = "update_commit"]
            /\ UNCHANGED table
       ELSE /\ Return(r, NotFound)
            /\ table' = Insert(table, [product[1] EXCEPT !.id = req[r].id])
    /\ UNCHANGED session

\* PUT /value/{id}: the query, and the not-found return
update_pro_query(r) ==
    /\ pc[r] = "update_query"
    /\ LET db_product == QueryFirst(table, req[r].id) IN
       IF db_product # NoRow
       THEN /\ req' = [req EXCEPT ![r].loaded = db_product]
            /\ pc' = [pc EXCEPT ![r] = "update_commit"]
            /\ UNCHANGED table
       ELSE /\ Return(r, NotFound)
            /\ UNCHANGED table
    /\ UNCHANGED session

\* the table after the UPDATE of update_pro has been committed
UpdateTable(t, loaded, p) ==
    LET cur == QueryFirst(t, loaded.id) IN
    (t \ {cur}) \cup {UpdatedRow(cur, p, Changed(loaded, p))}

\* PUT /value/{id}: setattr for every payload key, then db.commit()
update_pro_commit(r) ==
    /\ pc[r] = "update_commit"
    /\ \E updated_product \in products :
         LET loaded == req[r].loaded
             outcome == UpdateOutcome(table, loaded, updated_product)
         IN IF outcome = "ok"
            THEN /\ table' = UpdateTable(table, loaded, updated_product)
                 /\ req' = [req EXCEPT ![r].payload = updated_product,
                              ![r].loaded = Expired(updated_product.id)]
                 /\ pc' = [pc EXCEPT ![r] = "update_refresh"]
            ELSE IF outcome = "noop"
            THEN /\ req' = [req EXCEPT ![r].payload = updated_product,
                              ![r].loaded = Expired(loaded.id)]
                 /\ pc' = [pc EXCEPT ![r] = "update_refresh"]
                 /\ UNCHANGED table
            ELSE /\ Return(r, Failure(IF outcome = "stale" THEN "StaleDataError"
                                      ELSE "IntegrityError"))
                 /\ UNCHANGED table
    /\ UNCHANGED session

\* PUT /value/{id}: db.refresh(db_product); return db_product
update_pro_refresh(r) ==
    /\ pc[r] = "update_refresh"
    /\ Return(r, RefreshResult(table, req[r].loaded.id))
    /\ UNCHANGED << table, session >>

\* DELETE /value/{id}: the query, and the not-found return
delete_pro_query(r) ==
    /\ pc[r] = "delete_query"
    /\ LET db_product == QueryFirst(table, req[r].id) IN
       IF db_product # NoRow
       THEN /\ req' = [req EXCEPT ![r].loaded = Expired(db_product.id)]
            /\ pc' = [pc EXCEPT ![r] = "delete_commit"]
       ELSE Return(r, NotFound)
    /\ UNCHANGED << table, session >>

\* DELETE /value/{id}: db.delete(db_product); db.commit(); a DELETE that
\* matches no row only warns
delete_pro_commit(r) ==
    /\ pc[r] = "delete_commit"
    /\ table' = DeleteRows(table, req[r].loaded.id)
    /\ Return(r, Deleted)
    /\ UNCHANGED session

\* ------------------------------------------------------------- startup
\* The process is started again on the same test.db: create_all finds the
\* table, init_db() runs at import.
Restart ==
    /\ AllIdle
    /\ WithinIds(table, product[1])
    /\ table' = init_db(table)
    /\ UNCHANGED << pc, req, session >>

\* ------------------------------------------------------------- system
\* worker threads serve requests concurrently
Next ==
    \/ \E r \in Requests, op \in Ops : GetDbOpen(r, op) /\ UNCHANGED history
    \/ \E r \in Requests : Validate(r) /\ UNCHANGED history
    \/ \E r \in Requests : ValidationError(r) /\ UNCHANGED history
    \/ \E r \in Requests : value(r) /\ UNCHANGED history
    \/ \E r \in Requests : value_id(r) /\ UNCHANGED history
    \/ \E r \in Requests : add_pro_commit(r) /\ UNCHANGED history
    \/ \E r \in Requests : add_pro_refresh(r) /\ UNCHANGED history
    \/ \E r \in Requests : update_pro_query(r) /\ UNCHANGED history
    \/ \E r \in Requests : update_pro_commit(r) /\ UNCHANGED history
    \/ \E r \in Requests : update_pro_refresh(r) /\ UNCHANGED history
    \/ \E r \in Requests : delete_pro_query(r) /\ UNCHANGED history
    \/ \E r \in Requests : delete_pro_commit(r) /\ UNCHANGED history
    \/ \E r \in Requests : GetDbClose(r) /\ UNCHANGED history
    \/ Restart /\ UNCHANGED history

Spec == Init /\ [][Next]_vars

\* ------------------------------------------------- two racing updates
\* every row a create, a seeding or an update can have stored
Rows == {[p EXCEPT !.id = i] : p \in products \cup {product[1]}, i \in Ids}

\* the tables the service can have built before the two requests arrive
Tables == {t \in SUBSET Rows : \A a, b \in t : a.id = b.id => a = b}

InitRace ==
    /\ table \in Tables
    /\ pc = [r \in Requests |-> "idle"]
    /\ req = [r \in Requests |-> NoReq]
    /\ session = [r \in Requests |-> NoSession]
    /\ expect = [i \in Ids |-> NoExpect]
    /\ everIds = {}
    /\ served = FALSE

\* two PUT /value/{id} requests, one per worker thread, and nothing else
NextRace ==
    \/ \E r \in Requests :
          session[r].opened = 0 /\ GetDbOpen(r, "update_pro") /\ UNCHANGED history
    \/ \E r \in Requests : Validate(r) /\ UNCHANGED history
    \/ \E r \in Requests : ValidationError(r) /\ UNCHANGED history
    \/ \E r \in Requests : update_pro_query(r) /\ UNCHANGED history
    \/ \E r \in Requests : update_pro_commit(r) /\ UNCHANGED history
    \/ \E r \in Requests : update_pro_refresh(r) /\ UNCHANGED history
    \/ \E r \in Requests : GetDbClose(r) /\ UNCHANGED history

SpecRace == InitRace /\ [][NextRace]_vars

\* ------------------------------------------------- the single client
\* What a client that waits for each response before it sends the next
\* request has seen of an id: the product a create returned for it, or that
\* it deleted it, until a later request disturbs that.
Observed(i) ==
    LET created == \E r \in Requests :
                     /\ pc[r] = "add_refresh"
                     /\ req'[r].result.kind = "product"
                     /\ req'[r].result.row.id = i
        updated == \E r \in Requests :
                     pc[r] = "update_commit" /\ pc'[r] = "update_refresh"
                     /\ req[r].id = i
        deleted == \E r \in Requests :
                     pc[r] = "delete_commit" /\ pc'[r] = "teardown" /\ req[r].id = i
        inserted == \/ \E r \in Requests :
                        pc[r] = "add_commit" /\ pc'[r] = "add_refresh"
                    \/ AllIdle /\ table' # table
    IN IF created
       THEN [kind |-> "created",
             row |-> req'[CHOOSE r \in Requests : pc[r] = "add_refresh"].result.row]
       ELSE IF updated THEN NoExpect
       ELSE IF deleted THEN [kind |-> "deleted", row |-> NoRow]
       ELSE IF inserted /\ expect[i].kind = "deleted" THEN NoExpect
       ELSE expect[i]

Observe ==
    /\ expect' = [i \in Ids |-> Observed(i)]
    /\ everIds' = everIds \cup TableIds(table')
    /\ served' = (served \/ \E r \in Requests : pc[r] = "idle" /\ pc'[r] # "idle")

NextSeq ==
    \/ \E r \in Requests, op \in Ops : AllIdle /\ GetDbOpen(r, op) /\ Observe
    \/ \E r \in Requests : Validate(r) /\ Observe
    \/ \E r \in Requests : ValidationError(r) /\ Observe
    \/ \E r \in Requests : value(r) /\ Observe
    \/ \E r \in Requests : value_id(r) /\ Observe
    \/ \E r \in Requests : add_pro_commit(r) /\ Observe
    \/ \E r \in Requests : add_pro_refresh(r) /\ Observe
    \/ \E r \in Requests : update_pro_query(r) /\ Observe
    \/ \E r \in Requests : update_pro_commit(r) /\ Observe
    \/ \E r \in Requests : update_pro_refresh(r) /\ Observe
    \/ \E r \in Requests : delete_pro_query(r) /\ Observe
    \/ \E r \in Requests : delete_pro_commit(r) /\ Observe
    \/ \E r \in Requests : GetDbClose(r) /\ Observe
    \/ Restart /\ Observe

SpecSeq == Init /\ [][NextSeq]_vars


\* ------------------------------------------------------------- claims
InFlight(r) == pc[r] # "idle"

\* a handler statement of request r is executed in this step
Leaves(r, at) == pc[r] = at /\ pc'[r] # at

SameBody(row, p) ==
    /\ row.name = p.name
    /\ row.quantity = p.quantity
    /\ row.quality = p.quality
    /\ row.decs = p.decs

\* the row the path id and the payload of an update describe
Replaced(id, p) == [p EXCEPT !.id = id]

IsSeed(row) == SameBody(row, product[1])

\* the rows whose id is not id
OtherRows(t, id) == {row \in t : row.id # id}

\* C1: every request that opened a session through get_db has closed it
\* exactly once when it ends, whatever the exit path; a request in flight
\* holds one open session; no session is closed twice.
C1_SessionReleasedOnce ==
    \A r \in Requests :
        /\ session[r].opened <= 1
        /\ session[r].closed <= 1
        /\ InFlight(r) => session[r].opened = 1 /\ session[r].closed = 0
        /\ ~InFlight(r) => session[r].closed = session[r].opened

C1_Witness ==
    \E r, s \in Requests :
        /\ ~InFlight(r) /\ ~InFlight(s)
        /\ session[r].closed = 1 /\ session[r].outcome = "IntegrityError"
        /\ session[s].closed = 1 /\ session[s].outcome = "validation_error"

\* C2: an update of an existing id, for every accepted payload, succeeds,
\* overwrites the four non-id fields with the payload's and leaves the row at
\* the path id; a get-by-id issued next returns that row.
C2_UpdateOverwritesKeepsId ==
    [][\A r \in Requests :
          Leaves(r, "update_commit") =>
             /\ pc'[r] = "update_refresh"
             /\ QueryFirst(table', req[r].id) = Replaced(req[r].id, req'[r].payload)
             /\ value_id_result(table', req[r].id) =
                   ProductResult(Replaced(req[r].id, req'[r].payload))]_vars

\* C3: for every accepted payload a create succeeds and the id it stores is
\* non-null, is the id of no row in the table and has never been the id of
\* a row.
C3_CreateFreshId ==
    [][\A r \in Requests :
          Leaves(r, "add_commit") =>
             /\ pc'[r] = "add_refresh"
             /\ req'[r].loaded.id # NoId
             /\ req'[r].loaded.id \notin TableIds(table)
             /\ req'[r].loaded.id \notin everIds]_vars

\* C4: an update of an id that has no row answers not-found and the request
\* changes no row and creates none.
C4_UpdateMissingNotFound ==
    [][\A r \in Requests :
          /\ (Leaves(r, "update_query") /\ QueryFirst(table, req[r].id) = NoRow) =>
                /\ pc'[r] = "teardown"
                /\ req'[r].result = NotFound
                /\ table' = table
          /\ (Leaves(r, "teardown") /\ req[r].result = NotFound) => table' = table]_vars

C4_Witness ==
    \E r \in Requests :
        /\ pc[r] = "teardown"
        /\ req[r].op = "update_pro"
        /\ req[r].result = NotFound
        /\ table # {}

\* C5: a delete of an existing id removes the row and answers the success
\* message; a get-by-id of that id issued later, with no create in between,
\* answers not-found.
C5_DeleteThenGetNotFound ==
    [][\A r \in Requests :
          /\ Leaves(r, "delete_commit") =>
                /\ req'[r].result = Deleted
                /\ QueryFirst(table', req[r].id) = NoRow
          /\ (Leaves(r, "value_id") /\ expect[req[r].id].kind = "deleted") =>
                req'[r].result = NotFound]_vars

\* C6: a delete of an id that has no row answers not-found and changes
\* nothing; no statement of a delete request removes or changes a row whose id
\* is not the requested one.
C6_DeleteTouchesOnlyItsId ==
    [][\A r \in Requests :
          /\ (Leaves(r, "delete_query") /\ QueryFirst(table, req[r].id) = NoRow) =>
                /\ pc'[r] = "teardown"
                /\ req'[r].result = NotFound
                /\ table' = table
          /\ (Leaves(r, "delete_query") \/ Leaves(r, "delete_commit")) =>
                OtherRows(table', req[r].id) = OtherRows(table, req[r].id)
          /\ (Leaves(r, "teardown") /\ req[r].op = "delete_pro") => table' = table]_vars

C6_Witness ==
    \E r \in Requests :
        /\ pc[r] = "teardown"
        /\ req[r].op = "delete_pro"
        /\ req[r].result = NotFound
        /\ Cardinality(table) = 1

\* C7: the product a create returns has the payload's four non-id fields, and
\* a get-by-id of its id issued later, with no update or delete of that id in
\* between, returns the same product.
C7_CreateGetRoundTrip ==
    [][\A r \in Requests :
          /\ (Leaves(r, "add_refresh") /\ req'[r].result.kind = "product") =>
                /\ SameBody(req'[r].result.row, req[r].payload)
                /\ req'[r].result.row.id # NoId
          /\ (Leaves(r, "value_id") /\ expect[req[r].id].kind = "created") =>
                req'[r].result = ProductResult(expect[req[r].id].row)]_vars

C7_Witness ==
    \E r \in Requests :
        /\ pc[r] = "teardown"
        /\ req[r].op = "value_id"
        /\ req[r].id \in Ids
        /\ expect[req[r].id].kind = "created"
        /\ req[r].result = ProductResult(expect[req[r].id].row)
        /\ req[r].result.row.name = "widget"
        /\ Cardinality(table) = 2

\* C8: as long as no client request has been received, whatever the number
\* of process starts, the table holds exactly one seed row, with an id.
C8_SeedInsertedOnce ==
    ~served =>
        /\ Cardinality({row \in table : IsSeed(row)}) = 1
        /\ \A row \in table : row.id # NoId

\* rows with the same id are the same row
UniqueIds == \A a, b \in table : a.id = b.id => a = b

\* C9: in every reachable state, under every interleaving of two requests and
\* of restarts, no two rows of the table have the same id; a statement that
\* ends in an integrity error leaves the table as it was.
C9_UniqueIds ==
    /\ []UniqueIds
    /\ [][\A r \in Requests :
             (req[r].result.kind # "IntegrityError"
                /\ req'[r].result.kind = "IntegrityError") => table' = table]_vars

C9_Witness ==
    \E r, s \in Requests :
        /\ pc[r] = "teardown" /\ req[r].op = "add_pro"
        /\ req[r].result.kind = "IntegrityError"
        /\ pc[s] = "teardown" /\ req[s].op = "update_pro"
        /\ req[s].result.kind = "IntegrityError"
        /\ Cardinality(table) = 2

\* two update requests for the same path id, both past a successful commit
BothCommitted(r, s) ==
    /\ r # s
    /\ pc[r] = "update_refresh" /\ pc[s] = "update_refresh"
    /\ req[r].id = req[s].id

\* the rows the two sessions' objects identify after their commits
StoredRows(r, s) ==
    {row \in table : row.id \in {req[r].loaded.id, req[s].loaded.id}}

====
